---- MODULE Spec2Model ----
(***************************************************************************)
(* Graph Notes (static/js/app.js): the graph store, the interaction        *)
(* controller and the viewport, as a state machine.                        *)
(*                                                                         *)
(* Modelling conventions                                                   *)
(*  - JavaScript numbers are exact rationals <<numerator, denominator>>    *)
(*    in lowest terms (the double rounding error is not modelled).         *)
(*  - Node objects live in `heap`; a reference to a node object is its     *)
(*    index in `heap` (its address).  state.nodes is a sequence of         *)
(*    addresses, so that replacing state.nodes by freshly built objects    *)
(*    (loadGraph) leaves older references pointing at the old objects.     *)
(*  - The template literal `${a}-${b}` of two integers is injective; a     *)
(*    link id is the pair <<a, b>>.                                        *)
(*  - The DOM after restart() holds one element per entry of state.nodes   *)
(*    and state.links; simNodes/simLinks are the arrays handed to the      *)
(*    data joins and to the simulation by the last restart().  Pointer     *)
(*    events on nodes and lines can only target those elements.            *)
(*  - A click is dispatched by the browser right after the mouseup that    *)
(*    ends a press on the same element: `press` is the element the         *)
(*    primary button went down on, `clickOn` the element with a click      *)
(*    about to be dispatched.                                              *)
(*  - An exception that leaves an event handler is recorded in `uncaught`  *)
(*    (the handler's remaining statements do not run).                     *)
(***************************************************************************)
EXTENDS Integers, Sequences, FiniteSets, TLC

\* ---------------------------------------------------------------- bounds
\* Largest number of node objects ever allocated (created or loaded).
MaxObj == 3
\* Largest length of state.links for which a link is still added.
MaxLinks == 3
\* Largest length of state.links under the editing gestures of Spec.
MaxEditLinks == 2
\* Numerators and denominators of the viewport transform stay below this.
MaxRat == 100
\* The viewport translation stays within [-MaxPan, MaxPan] on both axes.
MaxPan == 12
\* Time passes in steps of TimeStep ms.
TimeStep == 250

\* ------------------------------------------------------------- rationals
Abs(n) == IF n < 0 THEN -n ELSE n

RECURSIVE GCD(_, _)
GCD(a, b) == IF b = 0 THEN a ELSE GCD(b, a % b)

\* n/d in lowest terms with a positive denominator (d # 0).
Rat(n, d) ==
    LET s == IF d < 0 THEN -1 ELSE 1
        g == GCD(Abs(n), Abs(d))
    IN  <<(s * n) \div g, (s * d) \div g>>

R(n) == <<n, 1>>
RAdd(a, b) == Rat(a[1] * b[2] + b[1] * a[2], a[2] * b[2])
RSub(a, b) == Rat(a[1] * b[2] - b[1] * a[2], a[2] * b[2])
RMul(a, b) == Rat(a[1] * b[1], a[2] * b[2])
RDiv(a, b) == Rat(a[1] * b[2], a[2] * b[1])
RLess(a, b) == a[1] * b[2] < b[1] * a[2]
RLeq(a, b) == a[1] * b[2] <= b[1] * a[2]
RMax(a, b) == IF RLess(a, b) THEN b ELSE a
RMin(a, b) == IF RLess(b, a) THEN b ELSE a

\* --------------------------------------------------------------- CONFIG
chargeStrength == -500
linkDistance == 150
zoomMin == <<1, 10>>
zoomMax == <<5, 1>>
gravityStrength == <<1, 20>>

\* The strength of a force made by d3.forceCenter(x, y) on which
\* .strength() is not called.
forceCenterStrength == <<1, 1>>

\* null for integers and references (ids and addresses are never negative)
NULL == -1
\* null for a number (fx, fy)
NoNum == <<>>
\* wait of the debounced change listener, in ms
debounceWait == 500
\* `timeout` of debounce() while no timer is pending
NoTimer == -1
\* null for state.zoomTransform
NoTransform == [isNull |-> TRUE]

\* ---------------------------------------------------------------- state
VARIABLES
    heap,                  \* node objects, by address
    nodes,                 \* state.nodes: sequence of addresses
    links,                 \* state.links: sequence of link objects
    nextId,                \* state.nextId
    selectedNode,          \* state.selectedNode: address or NULL
    connectionSourceNode,  \* state.connectionSourceNode: address or NULL
    editorOpen,            \* elements.editorPanel has class 'active'
    isDragging,            \* state.isDragging
    draggedNode,           \* state.draggedNode: address or NULL
    isPanning,             \* state.isPanning
    panStartX,             \* state.panStartX
    panStartY,             \* state.panStartY
    zoomTransform,         \* state.zoomTransform
    simNodes,              \* nodes handed to the simulation and the DOM
    simLinks,              \* links handed to the simulation and the DOM
    alpha,                 \* simulation.alpha()
    alphaTarget,           \* simulation.alphaTarget()
    charge,                \* strength of the 'charge' force
    press,                 \* element the primary button is held on
    clickOn,               \* element whose click event is being dispatched
    loadState,             \* the fetch of loadGraph: "pending", "done"
    uncaught,              \* exception that left the last handler
    editorText,            \* state.simplemde.value()
    timeout,               \* debounce's `timeout`: ms left, or NoTimer
    sinceChange,           \* ms since the editor's last change event
    request,               \* bodies POSTed by the last handler
    width,                 \* state.width
    height,                \* state.height
    center,                \* the simulation's 'center' force
    contextDisplay         \* elements.contextDisplay: the parts it shows

graphVars == <<heap, nodes, links, nextId>>
selVars == <<selectedNode, connectionSourceNode, editorOpen>>
dragVars == <<isDragging, draggedNode>>
panVars == <<isPanning, panStartX, panStartY>>
simVars == <<simNodes, simLinks, alpha, alphaTarget, charge>>
ptrVars == <<press, clickOn>>
editVars == <<editorText, timeout, sinceChange>>
saveVars == <<editorText, timeout, sinceChange, request>>
sizeVars == <<width, height, center>>
vars == <<heap, nodes, links, nextId, selectedNode, connectionSourceNode,
          editorOpen, isDragging, draggedNode, isPanning, panStartX,
          panStartY, zoomTransform, simNodes, simLinks, alpha, alphaTarget,
          charge, press, clickOn, loadState, uncaught, editorText, timeout,
          sinceChange, request, width, height, center, contextDisplay>>

\* ------------------------------------------------------------- viewport
\* d3.zoomIdentity
zoomIdentity == [k |-> R(1), x |-> R(0), y |-> R(0)]

\* state.zoomTransform || d3.zoomIdentity
CurrentTransform ==
    IF zoomTransform = NoTransform THEN zoomIdentity ELSE zoomTransform

\* d3 Transform.translate(x, y): the translation is applied in the
\* transform's own (scaled) coordinate system.
translate(t, x, y) ==
    [k |-> t.k, x |-> RAdd(t.x, RMul(t.k, x)), y |-> RAdd(t.y, RMul(t.k, y))]

\* d3 Transform.scale(k): multiplies the current scale.
scale(t, c) == [k |-> RMul(t.k, c), x |-> t.x, y |-> t.y]

\* Transform.apply: world point -> screen point
applyX(t, wx) == RAdd(RMul(wx, t.k), t.x)
applyY(t, wy) == RAdd(RMul(wy, t.k), t.y)

\* getSVGCoordinates: screen point (relative to the svg) -> world point
getSVGCoordinatesX(px) == RDiv(RSub(px, CurrentTransform.x), CurrentTransform.k)
getSVGCoordinatesY(py) == RDiv(RSub(py, CurrentTransform.y), CurrentTransform.k)

\* --------------------------------------------------------- event targets
NoTarget == [kind |-> "none"]
SvgTarget == [kind |-> "svg"]
NodeTarget(a) == [kind |-> "node", obj |-> a]
LinkTarget(l) == [kind |-> "link", link |-> l]
ButtonTarget(b) == [kind |-> "button", name |-> b]

Range(s) == {s[i] : i \in 1..Len(s)}

\* Elements of the DOM that pointer events can hit.
DomNodes == Range(simNodes)
DomLinks == Range(simLinks)

\* Pointer positions (relative to the svg; the svg's bounding rectangle
\* starts at the client origin) offered by the environment.
ScreenPts == {<<R(0), R(0)>>, <<R(4), R(2)>>}
\* The pointer position of the gestures that do not move the pointer.
ClickPts == {<<R(4), R(2)>>}
\* <<cos(angle), sin(angle)>> for the value of Math.random() offered.
Angles == {<<Rat(3, 5), Rat(4, 5)>>}

\* ---------------------------------------------------------------- notes
\* A note is a sequence of characters.
emptyNote == <<>>
\* '# Новая заметка\n\nНачните писать...' (abridged)
rootNote == <<"#", " ", "N">>
\* '# Разрывающая связь\n\nСвязь была прервана в этой точке.' (abridged)
breakerNote == <<"#", " ", "B">>

\* ---------------------------------------------------------- graph store
\* The part of `state` that createNode/createLink/restart read and write,
\* as one value, so that the calls of a handler compose.
Store ==
    [heap |-> heap, nodes |-> nodes, links |-> links, nextId |-> nextId,
     simNodes |-> simNodes, simLinks |-> simLinks, alpha |-> alpha,
     charge |-> charge]

Commit(S) ==
    /\ heap' = S.heap
    /\ nodes' = S.nodes
    /\ links' = S.links
    /\ nextId' = S.nextId
    /\ simNodes' = S.simNodes
    /\ simLinks' = S.simLinks
    /\ alpha' = S.alpha
    /\ charge' = S.charge

\* restart(): the data joins and the simulation get the current arrays,
\* alpha is reset to 1.
restart(S) ==
    [S EXCEPT !.simNodes = S.nodes, !.simLinks = S.links, !.alpha = R(1)]

\* Address of the node object createNode(S, ...) allocates.
NewAddr(S) == Len(S.heap) + 1

createNode(S, x, y, type, parentId) ==
    LET node == [id |-> S.nextId, x |-> x, y |-> y, fx |-> NoNum,
                 fy |-> NoNum, type |-> type,
                 note |-> IF type = "root" THEN rootNote ELSE emptyNote,
                 parentId |-> parentId, children |-> <<>>]
    IN  restart([S EXCEPT !.nextId = S.nextId + 1,
                          !.heap = Append(S.heap, node),
                          !.nodes = Append(S.nodes, Len(S.heap) + 1)])

\* CONFIG.chargeStrength * Math.min(state.links.length / 5, 2)
ChargeFor(n) == RMul(R(chargeStrength), RMin(Rat(n, 5), R(2)))

createLink(S, source, target, isBreakerLink) ==
    LET link == [source |-> source, target |-> target,
                 id |-> <<S.heap[source].id, S.heap[target].id>>,
                 isBreakerLink |-> isBreakerLink]
        S1 == restart([S EXCEPT !.links = Append(S.links, link)])
    IN  [S1 EXCEPT !.charge = ChargeFor(Len(S1.links)), !.alpha = Rat(1, 2)]

\* state.links.filter(l => l.id !== linkData.id)
RECURSIVE LinksWithoutId(_, _)
LinksWithoutId(ls, id) ==
    IF ls = <<>> THEN <<>>
    ELSE IF Head(ls).id # id
         THEN <<Head(ls)>> \o LinksWithoutId(Tail(ls), id)
         ELSE LinksWithoutId(Tail(ls), id)

\* The sum, not halved.
MidSum(a, b) == RAdd(a, b)

\* (a + b) / 2
Mid(a, b) == RDiv(RAdd(a, b), R(2))

\* createBreakerOnLine(linkData): link endpoints are always node objects
\* (createLink and loadGraph store objects), so the find-by-id branches and
\* the early return of lines 586-589 are never taken.
createBreakerOnLine(S, linkData) ==
    LET sourceNode == linkData.source
        targetNode == linkData.target
        midX == Mid(S.heap[sourceNode].x, S.heap[targetNode].x)
        midY == Mid(S.heap[sourceNode].y, S.heap[targetNode].y)
        S1 == [S EXCEPT !.links = LinksWithoutId(S.links, linkData.id)]
        breakerNode == NewAddr(S1)
        S2 == createNode(S1, midX, midY, "breaker", NULL)
        S3 == [S2 EXCEPT !.heap[breakerNode].note = breakerNote]
        S4 == createLink(S3, sourceNode, breakerNode, TRUE)
    IN  createLink(S4, breakerNode, targetNode, TRUE)


\* --------------------------------------------------------------- lookup
\* A lookup that takes the first node whatever the id.
FindFirst(h, ns, id) == IF ns = <<>> THEN NULL ELSE Head(ns)

\* state.nodes.find(n => n.id === id): first match, NULL for undefined
RECURSIVE FindNode(_, _, _)
FindNode(h, ns, id) ==
    IF ns = <<>> THEN NULL
    ELSE IF h[Head(ns)].id = id THEN Head(ns)
         ELSE FindNode(h, Tail(ns), id)

\* -------------------------------------------------------------- context
\* Characters String.prototype.trim() removes (those the notes of the
\* model contain).
Whitespace == {" ", "\n"}

RECURSIVE trimStart(_)
trimStart(t) ==
    IF t # <<>> /\ Head(t) \in Whitespace THEN trimStart(Tail(t)) ELSE t

RECURSIVE trimEnd(_)
trimEnd(t) ==
    IF t # <<>> /\ t[Len(t)] \in Whitespace
    THEN trimEnd(SubSeq(t, 1, Len(t) - 1)) ELSE t

\* note.trim()
trim(t) == trimEnd(trimStart(t))

MAX_CHARS == 400

\* noteText.substring(start): the characters from position start (from 0)
substring(t, start) == SubSeq(t, start + 1, Len(t))

\* '...'
Ellipsis == <<".", ".", ".">>

\* The text of a context part (lines 706-708, and again 722-724)
displayText(noteText) ==
    IF Len(noteText) > MAX_CHARS
    THEN Ellipsis \o substring(noteText, Len(noteText) - MAX_CHARS)
    ELSE noteText

\* The parts pushed for the ids of node.children, in order.
RECURSIVE childParts(_, _, _)
childParts(h, ns, ids) ==
    IF ids = <<>> THEN <<>>
    ELSE LET childNode == FindNode(h, ns, Head(ids))
             part == IF childNode # NULL /\ trim(h[childNode].note) # <<>>
                     THEN <<[label |-> "child", id |-> h[childNode].id,
                             text |-> displayText(trim(h[childNode].note))]>>
                     ELSE <<>>
         IN  part \o childParts(h, ns, Tail(ids))

\* getNodeContext(node) over the node objects h and state.nodes ns
getNodeContext(h, ns, node) ==
    LET parentNode == IF h[node].parentId \in {NULL, 0} THEN NULL
                      ELSE FindNode(h, ns, h[node].parentId)
        parentPart == IF parentNode # NULL /\ trim(h[parentNode].note) # <<>>
                      THEN <<[label |-> "parent", id |-> h[parentNode].id,
                              text |-> displayText(trim(h[parentNode].note))]>>
                      ELSE <<>>
    IN  parentPart \o childParts(h, ns, h[node].children)

\* ---------------------------------------------------------- persistence
\* The body saveGraph() posts for the node objects h, state.nodes ns and
\* state.links ls (createdAt is not modelled).
saveGraph(h, ns, ls) ==
    [nodes |-> [i \in 1..Len(ns) |->
                  [id |-> h[ns[i]].id, type |-> h[ns[i]].type,
                   note |-> h[ns[i]].note, x |-> h[ns[i]].x,
                   y |-> h[ns[i]].y, parentId |-> h[ns[i]].parentId,
                   children |-> h[ns[i]].children]],
     links |-> [i \in 1..Len(ls) |->
                  [source |-> h[ls[i].source].id,
                   target |-> h[ls[i].target].id,
                   isBreakerLink |-> ls[i].isBreakerLink]]]

\* The handler posts nothing and leaves the editor alone.
NoSave == request' = <<>> /\ UNCHANGED editVars

\* The debounced listener of the editor's 'change' event is called:
\* clearTimeout(timeout); timeout = setTimeout(later, wait).
debounce == timeout' = debounceWait /\ sinceChange' = 0

\* openEditor(node): updateContextDisplay(node) shows the parts of
\* getNodeContext(node) (their markup is not modelled);
\* simplemde.value(node.note || '') replaces the text, which the editor
\* reports as a change.
openEditor(node) ==
    /\ contextDisplay' = getNodeContext(heap, nodes, node)
    /\ editorText' = heap[node].note
    /\ debounce

\* ------------------------------------------------------------ selection
\* No click event is being dispatched: another event can be delivered.
Quiet == clickOn = NoTarget

\* The connection handler without its same-node test.
connectWithoutSameNodeTest(S, clickedNode) ==
    IF connectionSourceNode # NULL
    THEN <<createLink(S, connectionSourceNode, clickedNode, FALSE), NULL>>
    ELSE <<S, clickedNode>>

\* setConnectionSource(node) and clearConnectionSelection() change
\* state.connectionSourceNode (and DOM classes, which are not modelled).
\* handleCtrlClickForConnection(clickedNode): the new value of
\* <<Store, state.connectionSourceNode>>.
handleCtrlClickForConnection(S, clickedNode) ==
    IF connectionSourceNode # NULL
       /\ S.heap[connectionSourceNode].id = S.heap[clickedNode].id
    THEN <<S, NULL>>
    ELSE IF connectionSourceNode # NULL
         THEN <<createLink(S, connectionSourceNode, clickedNode, FALSE), NULL>>
         ELSE <<S, clickedNode>>

\* ------------------------------------------------------- pointer: press
\* mousedown (primary button) on the background or on a line: the event
\* reaches the svg listener, event.target is not inside a .node.
handleSvgMouseDown(t, px, py) ==
    /\ Quiet /\ press = NoTarget
    /\ t \in {SvgTarget} \cup {LinkTarget(l) : l \in DomLinks}
    /\ isPanning' = TRUE
    /\ panStartX' = px
    /\ panStartY' = py
    /\ press' = t
    /\ uncaught' = "none"
    /\ UNCHANGED <<graphVars, selVars, dragVars, zoomTransform, simVars,
                   clickOn, loadState, sizeVars, contextDisplay>>
    /\ NoSave

\* mousedown (primary button) on a node; stopPropagation keeps it from
\* the svg listener.
handleNodeMouseDown(d) ==
    /\ Quiet /\ press = NoTarget
    /\ d \in DomNodes
    /\ isDragging' = TRUE
    /\ draggedNode' = d
    /\ heap' = [heap EXCEPT ![d].fx = heap[d].x, ![d].fy = heap[d].y]
    /\ alphaTarget' = Rat(3, 10)
    /\ press' = NodeTarget(d)
    /\ uncaught' = "none"
    /\ UNCHANGED <<nodes, links, nextId, selVars, panVars, zoomTransform,
                   simNodes, simLinks, alpha, charge, clickOn, loadState,
                   sizeVars, contextDisplay>>
    /\ NoSave

\* mousedown on one of the editor panel's buttons: no listener of app.js
\* handles it, the press can end in a click on the button.
Buttons == {"close-editor", "save-note", "delete-node"}

PressButton(b) ==
    /\ Quiet /\ press = NoTarget
    /\ b \in Buttons
    /\ press' = ButtonTarget(b)
    /\ uncaught' = "none"
    /\ UNCHANGED <<graphVars, selVars, dragVars, panVars, zoomTransform,
                   simVars, clickOn, loadState, sizeVars, contextDisplay>>
    /\ NoSave

\* A transform whose components stay within the bound of the model.
SmallRat(r) == Abs(r[1]) <= MaxRat /\ r[2] <= MaxRat
Near(r) == SmallRat(r) /\ Abs(r[1]) <= MaxPan * r[2]
InBounds(t) == SmallRat(t.k) /\ Near(t.x) /\ Near(t.y)

\* mousemove on the document
handleGlobalMouseMove(px, py) ==
    LET dragging == isDragging /\ draggedNode # NULL
        dx == RSub(px, panStartX)
        dy == RSub(py, panStartY)
        newTransform == translate(CurrentTransform, dx, dy)
    IN  /\ Quiet
        /\ heap' = IF dragging
                   THEN [heap EXCEPT ![draggedNode].fx = getSVGCoordinatesX(px),
                                     ![draggedNode].fy = getSVGCoordinatesY(py)]
                   ELSE heap
        /\ IF isPanning
           THEN /\ InBounds(newTransform)
                /\ zoomTransform' = newTransform
                /\ alpha' = Rat(1, 10)
                /\ panStartX' = px
                /\ panStartY' = py
           ELSE UNCHANGED <<zoomTransform, alpha, panStartX, panStartY>>
        /\ uncaught' = "none"
        /\ UNCHANGED <<nodes, links, nextId, selVars, dragVars, isPanning,
                       simNodes, simLinks, alphaTarget, charge, ptrVars,
                       loadState, sizeVars, contextDisplay>>
        /\ NoSave

\* The element of a press is still in the document.
Attached(t) ==
    CASE t.kind = "node" -> t.obj \in DomNodes
      [] t.kind = "link" -> t.link \in DomLinks
      [] t.kind = "none" -> FALSE
      [] OTHER -> TRUE

\* mouseup on the document; `click` says that the button is released over
\* the pressed element, so that the browser dispatches a click on it next.
handleGlobalMouseUp(click) ==
    LET dragging == isDragging /\ draggedNode # NULL
    IN  /\ Quiet
        /\ click => Attached(press)
        /\ IF dragging
           THEN /\ heap' = [heap EXCEPT ![draggedNode].fx = NoNum,
                                        ![draggedNode].fy = NoNum]
                /\ alphaTarget' = R(0)
                /\ isDragging' = FALSE
                /\ draggedNode' = NULL
           ELSE UNCHANGED <<heap, alphaTarget, isDragging, draggedNode>>
        /\ isPanning' = FALSE
        /\ press' = NoTarget
        /\ clickOn' = IF click THEN press ELSE NoTarget
        /\ uncaught' = "none"
        /\ UNCHANGED <<nodes, links, nextId, selVars, panStartX, panStartY,
                       zoomTransform, simNodes, simLinks, alpha, charge,
                       loadState, sizeVars, contextDisplay>>
        /\ NoSave

\* The button is released where no mouseup reaches the document (outside
\* the window): no listener runs.
MouseUpOutside ==
    /\ Quiet /\ press # NoTarget
    /\ press' = NoTarget
    /\ UNCHANGED <<graphVars, selVars, dragVars, panVars, zoomTransform,
                   simVars, clickOn, loadState,
                   sizeVars, contextDisplay, uncaught>>
    /\ UNCHANGED saveVars


\* ------------------------------------------------------- pointer: click
\* click on the svg background
handleBackgroundClick(ctrl, px, py) ==
    /\ clickOn = SvgTarget
    /\ clickOn' = NoTarget
    /\ uncaught' = "none"
    /\ IF ctrl
       THEN /\ Len(heap) < MaxObj
            /\ Commit(createNode(Store, getSVGCoordinatesX(px),
                                 getSVGCoordinatesY(py), "root", NULL))
            /\ UNCHANGED selVars
            /\ NoSave
       ELSE \* clearConnectionSelection(); closeEditor() when the panel
            \* is open (closeEditor also posts the graph)
            /\ connectionSourceNode' = NULL
            /\ selectedNode' = IF editorOpen THEN NULL ELSE selectedNode
            /\ editorOpen' = FALSE
            /\ request' = IF editorOpen
                          THEN <<saveGraph(heap, nodes, links)>> ELSE <<>>
            /\ UNCHANGED <<graphVars, simNodes, simLinks, alpha, charge,
                           editVars>>
    /\ UNCHANGED <<dragVars, panVars, zoomTransform, alphaTarget, press,
                   loadState, sizeVars, contextDisplay>>

\* click on a node
handleNodeClick(d, ctrl) ==
    /\ clickOn = NodeTarget(d)
    /\ clickOn' = NoTarget
    /\ uncaught' = "none"
    /\ IF isDragging
       THEN UNCHANGED <<graphVars, selVars, simNodes, simLinks, alpha, charge,
                        editVars, contextDisplay>>
       ELSE IF ctrl
            THEN LET r == handleCtrlClickForConnection(Store, d)
                 IN  /\ Len(r[1].links) <= MaxLinks
                     /\ Commit(r[1])
                     /\ connectionSourceNode' = r[2]
                     /\ UNCHANGED <<selectedNode, editorOpen, editVars,
                                    contextDisplay>>
            ELSE \* selectNode(d): openEditor(d)
                 /\ selectedNode' = d
                 /\ editorOpen' = TRUE
                 /\ openEditor(d)
                 /\ UNCHANGED <<graphVars, connectionSourceNode, simNodes,
                                simLinks, alpha, charge>>
    /\ request' = <<>>
    /\ UNCHANGED <<dragVars, panVars, zoomTransform, alphaTarget, press,
                   loadState, sizeVars>>

\* click on a line
handleLinkClick(d, ctrl) ==
    /\ clickOn = LinkTarget(d)
    /\ clickOn' = NoTarget
    /\ uncaught' = "none"
    /\ IF ctrl
       THEN /\ Len(heap) < MaxObj
            /\ Len(LinksWithoutId(links, d.id)) + 2 <= MaxLinks
            /\ Commit(createBreakerOnLine(Store, d))
       ELSE UNCHANGED <<graphVars, simNodes, simLinks, alpha, charge>>
    /\ UNCHANGED <<selVars, dragVars, panVars, zoomTransform, alphaTarget,
                   press, loadState, sizeVars, contextDisplay>>
    /\ NoSave

\* contextmenu on a node; angle = <<cos, sin>> of Math.random() * 2 * PI
handleNodeRightClick(d, angle) ==
    /\ Quiet
    /\ d \in DomNodes
    /\ uncaught' = "none"
    /\ IF isDragging
       THEN UNCHANGED <<graphVars, selVars, simNodes, simLinks, alpha, charge>>
       ELSE LET newNode == NewAddr(Store)
                S1 == createNode(Store,
                        RAdd(heap[d].x, RMul(angle[1], R(linkDistance))),
                        RAdd(heap[d].y, RMul(angle[2], R(linkDistance))),
                        "child", heap[d].id)
            IN  /\ Len(heap) < MaxObj
                /\ Len(links) < MaxLinks
                /\ connectionSourceNode' = NULL
                /\ Commit(createLink(S1, d, newNode, FALSE))
                /\ UNCHANGED <<selectedNode, editorOpen>>
    /\ UNCHANGED <<dragVars, panVars, zoomTransform, alphaTarget, ptrVars,
                   loadState, sizeVars, contextDisplay>>
    /\ NoSave

\* contextmenu on the background (or on a line, from which it bubbles)
handleBackgroundRightClick(ctrl, px, py) ==
    /\ Quiet
    /\ uncaught' = "none"
    /\ IF ctrl /\ ~(isDragging \/ isPanning)
       THEN /\ Len(heap) < MaxObj
            /\ Commit(createNode(Store, getSVGCoordinatesX(px),
                                 getSVGCoordinatesY(py), "root", NULL))
       ELSE UNCHANGED <<graphVars, simNodes, simLinks, alpha, charge>>
    /\ UNCHANGED <<selVars, dragVars, panVars, zoomTransform, alphaTarget,
                   ptrVars, loadState, sizeVars, contextDisplay>>
    /\ NoSave


\* ------------------------------------------------------ delete, keyboard
\* deleteSelectedNode(): `thisUndefined` says that the function is called
\* as a plain function (from handleKeydown), so that `this` is undefined
\* in strict mode and line 659 throws a TypeError; as the listener of the
\* delete button `this` is the button, `this.parentId` is undefined, and
\* the callback of line 662 reads the undeclared `node` for the first
\* element of state.nodes, a ReferenceError.
deleteSelectedNode(thisUndefined) ==
    IF selectedNode = NULL
    THEN /\ uncaught' = "none"
         /\ NoSave
         /\ UNCHANGED <<graphVars, selVars, simNodes, simLinks, alpha, charge>>
    ELSE IF thisUndefined
    THEN /\ uncaught' = "TypeError"
         /\ NoSave
         /\ UNCHANGED <<graphVars, selVars, simNodes, simLinks, alpha, charge>>
    ELSE IF nodes # <<>>
    THEN /\ uncaught' = "ReferenceError"
         /\ NoSave
         /\ UNCHANGED <<graphVars, selVars, simNodes, simLinks, alpha, charge>>
    ELSE \* state.nodes is empty: find() calls nothing back, parentNode is
         \* undefined, the loops over state.nodes do nothing
         LET nodeId == heap[selectedNode].id
             kept == SelectSeq(links, LAMBDA l :
                         heap[l.source].id # nodeId /\ heap[l.target].id # nodeId)
         IN  /\ Commit(restart([Store EXCEPT !.links = kept]))
             /\ selectedNode' = NULL
             /\ editorOpen' = FALSE
             /\ UNCHANGED connectionSourceNode
             /\ uncaught' = "none"
             \* closeEditor() posts, then line 691 posts again
             /\ request' = <<saveGraph(heap, nodes, kept),
                             saveGraph(heap, nodes, kept)>>
             /\ UNCHANGED editVars

Keys == {"Escape", "s", "Delete"}

\* keydown on the document
handleKeydown(key, ctrl) ==
    /\ Quiet
    /\ key \in Keys
    /\ IF key = "Escape"
       THEN \* closeEditor(); clearConnectionSelection()
            /\ selectedNode' = NULL
            /\ editorOpen' = FALSE
            /\ connectionSourceNode' = NULL
            /\ uncaught' = "none"
            /\ request' = <<saveGraph(heap, nodes, links)>>
            /\ UNCHANGED <<graphVars, simNodes, simLinks, alpha, charge,
                           editVars>>
       ELSE IF key = "Delete" /\ selectedNode # NULL
            THEN deleteSelectedNode(TRUE)
            ELSE \* Ctrl+S posts the graph; any other key does nothing
                 /\ uncaught' = "none"
                 /\ request' = IF ctrl /\ key = "s"
                               THEN <<saveGraph(heap, nodes, links)>>
                               ELSE <<>>
                 /\ UNCHANGED <<graphVars, selVars, simNodes, simLinks,
                                alpha, charge, editVars>>
    /\ UNCHANGED <<dragVars, panVars, zoomTransform, alphaTarget, ptrVars,
                   loadState, sizeVars, contextDisplay>>

\* click on a button of the editor panel
handleButtonClick(b) ==
    /\ clickOn = ButtonTarget(b)
    /\ clickOn' = NoTarget
    /\ IF b = "close-editor"
       THEN \* closeEditor()
            /\ selectedNode' = NULL
            /\ editorOpen' = FALSE
            /\ uncaught' = "none"
            /\ request' = <<saveGraph(heap, nodes, links)>>
            /\ UNCHANGED <<graphVars, connectionSourceNode, simNodes,
                           simLinks, alpha, charge, editVars>>
       ELSE IF b = "delete-node"
            THEN deleteSelectedNode(FALSE)
            ELSE \* save-note: saveGraph()
                 /\ uncaught' = "none"
                 /\ request' = <<saveGraph(heap, nodes, links)>>
                 /\ UNCHANGED <<graphVars, selVars, simNodes, simLinks,
                                alpha, charge, editVars>>
    /\ UNCHANGED <<dragVars, panVars, zoomTransform, alphaTarget, press,
                   loadState, sizeVars, contextDisplay>>

\* ---------------------------------------------------------------- editor
\* Texts the user leaves in the editor.
Texts == {<<"a">>, <<"a", "b">>}

\* The user edits the note: the editor holds the new text `text` and
\* reports a change to the debounced listener, which only re-arms the
\* timer.
editorChange(text) ==
    /\ Quiet
    /\ editorOpen
    /\ text \in Texts
    /\ text # editorText
    /\ editorText' = text
    /\ debounce
    /\ request' = <<>>
    /\ uncaught' = "none"
    /\ UNCHANGED <<graphVars, selVars, dragVars, panVars, zoomTransform,
                   simVars, ptrVars, loadState, sizeVars, contextDisplay>>

\* TimeStep ms pass; a timer that is due runs before more time passes.
timePasses ==
    /\ Quiet
    /\ timeout = NoTimer \/ timeout > 0
    /\ timeout' = IF timeout = NoTimer THEN NoTimer
                  ELSE IF timeout > TimeStep THEN timeout - TimeStep ELSE 0
    /\ sinceChange' = IF sinceChange + TimeStep > debounceWait
                      THEN debounceWait ELSE sinceChange + TimeStep
    /\ UNCHANGED <<graphVars, selVars, dragVars, panVars, zoomTransform,
                   simVars, ptrVars, loadState,
                   sizeVars, contextDisplay, uncaught,
                   editorText, request>>

\* The timer of debounce() runs `later`: the listener of line 127 copies
\* the editor's text into the selected node and posts the graph.
later ==
    /\ Quiet
    /\ timeout = 0
    /\ timeout' = NoTimer
    /\ IF selectedNode # NULL
       THEN /\ heap' = [heap EXCEPT ![selectedNode].note = editorText]
            /\ request' = <<saveGraph(heap', nodes, links)>>
       ELSE /\ heap' = heap
            /\ request' = <<>>
    /\ uncaught' = "none"
    /\ UNCHANGED <<nodes, links, nextId, selVars, dragVars, panVars,
                   zoomTransform, simVars, ptrVars, loadState,
                   sizeVars, contextDisplay, editorText,
                   sinceChange>>

\* --------------------------------------------------------------- resize
\* Sizes <<innerWidth, innerHeight>> the window takes.
InitialSize == <<8, 6>>
WindowSizes == {InitialSize, <<12, 8>>}

\* d3.forceCenter(x, y)
forceCenter(x, y) == [x |-> x, y |-> y, strength |-> forceCenterStrength]

\* resize of the window to w x h
handleResize(w, h) ==
    /\ Quiet
    /\ <<w, h>> \in WindowSizes
    /\ width' = w
    /\ height' = h
    /\ center' = forceCenter(Rat(w, 2), Rat(h, 2))
    /\ alpha' = Rat(3, 10)
    /\ uncaught' = "none"
    /\ UNCHANGED <<graphVars, selVars, dragVars, panVars, zoomTransform,
                   simNodes, simLinks, alphaTarget, charge, ptrVars,
                   loadState, contextDisplay>>
    /\ NoSave

\* ------------------------------------------------------------ wheel zoom
\* The transform handleWheel hands to state.zoom.transform.
\* deltaPositive: event.deltaY > 0.
wheelTransform(transform, deltaPositive, mouseX, mouseY) ==
    LET zoomFactor == IF deltaPositive THEN Rat(9, 10) ELSE Rat(11, 10)
        newScale == RMul(transform.k, zoomFactor)
        clampedScale == RMax(zoomMin, RMin(zoomMax, newScale))
        ratio == RDiv(clampedScale, transform.k)
    IN  scale(translate(transform,
                  RSub(mouseX, RMul(RSub(mouseX, transform.x), ratio)),
                  RSub(mouseY, RMul(RSub(mouseY, transform.y), ratio))),
              clampedScale)

\* wheel on the svg.  zoom.transform applies the transform it is given
\* (it does not enforce scaleExtent); the 'zoom' listener stores it in
\* state.zoomTransform and the 'end' listener sets alpha to 0.1.  The
\* 150 ms transition is taken to its end.
handleWheel(deltaPositive, mouseX, mouseY) ==
    LET newTransform ==
            wheelTransform(CurrentTransform, deltaPositive, mouseX, mouseY)
    IN  /\ Quiet
        /\ InBounds(newTransform)
        /\ zoomTransform' = newTransform
        /\ alpha' = Rat(1, 10)
        /\ uncaught' = "none"
        /\ UNCHANGED <<graphVars, selVars, dragVars, panVars, simNodes,
                       simLinks, alphaTarget, charge, ptrVars, loadState,
                       sizeVars, contextDisplay>>
        /\ NoSave

\* Transforms the zoom behaviour's own gestures (installed by
\* state.svg.call(zoom)) are taken to produce: any translation, a scale
\* within scaleExtent([zoomMin, zoomMax]).
GestureScales == {zoomMin, Rat(1, 3), R(1), zoomMax}
GestureOffsets == {R(0), R(-10)}
GestureTransforms ==
    {[k |-> k, x |-> x, y |-> R(0)] : k \in GestureScales, x \in GestureOffsets}

\* A gesture handled by the zoom behaviour itself: the 'zoom' listener
\* stores event.transform, the 'end' listener sets alpha to 0.1.
zoomGesture(t) ==
    /\ Quiet
    /\ t \in GestureTransforms
    /\ RLeq(zoomMin, t.k) /\ RLeq(t.k, zoomMax)
    /\ zoomTransform' = t
    /\ alpha' = Rat(1, 10)
    /\ uncaught' = "none"
    /\ UNCHANGED <<graphVars, selVars, dragVars, panVars, simNodes,
                   simLinks, alphaTarget, charge, ptrVars, loadState,
                   sizeVars, contextDisplay>>
    /\ NoSave


\* ----------------------------------------------------------------- load
\* Bodies GET /api/graph is taken to answer with.
\* hasNodes / hasLinks: the body has a `nodes` / `links` array.
PayloadEmpty ==
    [hasNodes |-> TRUE, nodes |-> <<>>, hasLinks |-> TRUE, links |-> <<>>]
PayloadTree ==
    [hasNodes |-> TRUE, hasLinks |-> TRUE,
     nodes |-> <<[id |-> 1, type |-> "root", note |-> rootNote,
                  x |-> R(2), y |-> R(2), parentId |-> NULL,
                  children |-> <<2>>],
                 [id |-> 2, type |-> "child", note |-> emptyNote,
                  x |-> R(6), y |-> R(2), parentId |-> 1,
                  children |-> <<>>]>>,
     links |-> <<[source |-> 1, target |-> 2, isBreakerLink |-> FALSE]>>]
Payloads == {PayloadEmpty, PayloadTree}

\* A body without `nodes`.
PayloadNoNodes ==
    [hasNodes |-> FALSE, nodes |-> <<>>, hasLinks |-> TRUE,
     links |-> <<[source |-> 1, target |-> 2, isBreakerLink |-> FALSE]>>]
\* Nodes stored out of id order; the first link names a node that is not
\* in the body.
PayloadMixed ==
    [hasNodes |-> TRUE, hasLinks |-> TRUE,
     nodes |-> <<[id |-> 2, type |-> "root", note |-> rootNote,
                  x |-> R(6), y |-> R(2), parentId |-> NULL,
                  children |-> <<>>],
                 [id |-> 1, type |-> "root", note |-> emptyNote,
                  x |-> NoNum, y |-> R(2), parentId |-> NULL,
                  children |-> <<>>]>>,
     links |-> <<[source |-> 2, target |-> 3, isBreakerLink |-> FALSE],
                 [source |-> 2, target |-> 1, isBreakerLink |-> TRUE],
                 [source |-> 1, target |-> 2, isBreakerLink |-> FALSE]>>]
\* A body with nodes and without `links`.
PayloadNoLinks ==
    [hasNodes |-> TRUE, hasLinks |-> FALSE, links |-> <<>>,
     nodes |-> <<[id |-> 1, type |-> "root", note |-> rootNote,
                  x |-> R(2), y |-> R(2), parentId |-> NULL,
                  children |-> <<>>]>>]
LoadPayloads ==
    Payloads \cup {PayloadNoNodes, PayloadMixed, PayloadNoLinks}

\* A note of MAX_CHARS + 2 characters that starts with "h" and ends with
\* "t".
LongNote ==
    [i \in 1..(MAX_CHARS + 2) |->
        IF i = 1 THEN "h" ELSE IF i = MAX_CHARS + 2 THEN "t" ELSE "m"]
\* A parent with a long note whose children are a node with a long note
\* between white space, a node with a note of white space only, and an id
\* that no node has.
PayloadNotes ==
    [hasNodes |-> TRUE, hasLinks |-> TRUE,
     nodes |-> <<[id |-> 1, type |-> "root", note |-> LongNote,
                  x |-> R(2), y |-> R(2), parentId |-> NULL,
                  children |-> <<3, 2, 4>>],
                 [id |-> 2, type |-> "child",
                  note |-> <<" ">> \o LongNote \o <<"\n">>,
                  x |-> R(6), y |-> R(2), parentId |-> 1,
                  children |-> <<>>],
                 [id |-> 3, type |-> "child", note |-> <<" ", "\n">>,
                  x |-> R(2), y |-> R(6), parentId |-> 1,
                  children |-> <<>>]>>,
     links |-> <<[source |-> 1, target |-> 2, isBreakerLink |-> FALSE],
                 [source |-> 1, target |-> 3, isBreakerLink |-> FALSE]>>]
\* A parent and a child with short notes between white space.
PayloadShortNotes ==
    [hasNodes |-> TRUE, hasLinks |-> TRUE,
     nodes |-> <<[id |-> 1, type |-> "root", note |-> <<" ", "p", " ">>,
                  x |-> R(2), y |-> R(2), parentId |-> NULL,
                  children |-> <<2>>],
                 [id |-> 2, type |-> "child", note |-> <<"c", " ", "d", "\n">>,
                  x |-> R(6), y |-> R(2), parentId |-> 1,
                  children |-> <<>>]>>,
     links |-> <<[source |-> 1, target |-> 2, isBreakerLink |-> FALSE]>>]
NotePayloads == {PayloadNotes, PayloadShortNotes}

\* Values of state.width / 2 + (Math.random() - 0.5) * 200 offered.
RandomCoords == {R(3)}

\* n.x || fallback: 0 and undefined are falsy
NumOr(v, fallback) == IF v = NoNum \/ v = R(0) THEN fallback ELSE v
\* n.parentId || null
IdOrNull(v) == IF v = 0 THEN NULL ELSE v

\* One element of data.nodes.map(...)
LoadedNode(n, rx, ry) ==
    [id |-> n.id, type |-> n.type, note |-> n.note,
     x |-> NumOr(n.x, rx), y |-> NumOr(n.y, ry), fx |-> NoNum, fy |-> NoNum,
     parentId |-> IdOrNull(n.parentId), children |-> n.children]

\* The last id, not the largest.
LastOf(ids) == ids[Len(ids)]

\* Math.max(...ids)
RECURSIVE MaxOf(_)
MaxOf(ids) ==
    IF Len(ids) = 1 THEN ids[1]
    ELSE LET m == MaxOf(Tail(ids)) IN IF ids[1] > m THEN ids[1] ELSE m

\* The second then() of loadGraph for the body `data`. Without
\* data.links, line 1003 throws after state.nodes was assigned; catch()
\* logs the error.
loadGraphThen(S, data, rx, ry) ==
    IF ~data.hasNodes \/ data.nodes = <<>>
    THEN S
    ELSE IF ~data.hasLinks
    THEN LET n == Len(data.nodes)
         IN  [S EXCEPT
                !.heap = S.heap \o [i \in 1..n |-> LoadedNode(data.nodes[i], rx, ry)],
                !.nodes = [i \in 1..n |-> Len(S.heap) + i]]
    ELSE LET n == Len(data.nodes)
             base == Len(S.heap)
             heap1 == S.heap \o [i \in 1..n |-> LoadedNode(data.nodes[i], rx, ry)]
             nodes1 == [i \in 1..n |-> base + i]
             mapped == [i \in 1..Len(data.links) |->
                          [source |-> FindNode(heap1, nodes1, data.links[i].source),
                           target |-> FindNode(heap1, nodes1, data.links[i].target),
                           id |-> <<data.links[i].source, data.links[i].target>>,
                           isBreakerLink |-> data.links[i].isBreakerLink]]
             links1 == SelectSeq(mapped,
                          LAMBDA l : l.source # NULL /\ l.target # NULL)
         IN  restart([S EXCEPT !.heap = heap1, !.nodes = nodes1,
                               !.links = links1,
                               !.nextId = MaxOf([i \in 1..n |-> heap1[nodes1[i]].id]) + 1])

\* The response of GET /api/graph arrives and parses.
loadGraph(data, rx, ry) ==
    /\ Quiet
    /\ loadState = "pending"
    /\ data \in LoadPayloads \cup NotePayloads
    /\ Len(heap) + Len(data.nodes) <= MaxObj
    /\ Commit(loadGraphThen(Store, data, rx, ry))
    /\ loadState' = "done"
    /\ uncaught' = "none"
    /\ UNCHANGED <<selVars, dragVars, panVars, zoomTransform, alphaTarget,
                   ptrVars, sizeVars, contextDisplay>>
    /\ NoSave

\* The fetch rejects or the body does not parse: catch() logs.
loadGraphCatch ==
    /\ Quiet
    /\ loadState = "pending"
    /\ loadState' = "done"
    /\ uncaught' = "none"
    /\ UNCHANGED <<graphVars, selVars, dragVars, panVars, zoomTransform,
                   simVars, ptrVars, sizeVars, contextDisplay>>
    /\ NoSave

\* ------------------------------------------------------ simulation tick
\* Values of alpha the model distinguishes: those app.js sets.
AlphaLevels == {R(0), Rat(1, 10), Rat(3, 10), Rat(1, 2), R(1)}

\* alpha += (alphaTarget - alpha) * alphaDecay, coarsened to AlphaLevels:
\* one level towards the target per tick.
AlphaStep(a, t) ==
    IF RLess(t, a)
    THEN CHOOSE l \in AlphaLevels :
            /\ RLess(l, a) /\ RLeq(t, l)
            /\ \A m \in AlphaLevels : RLess(m, a) /\ RLeq(t, m) => RLeq(m, l)
    ELSE IF RLess(a, t)
    THEN CHOOSE l \in AlphaLevels :
            /\ RLess(a, l) /\ RLeq(l, t)
            /\ \A m \in AlphaLevels : RLess(a, m) /\ RLeq(m, t) => RLeq(l, m)
    ELSE a

\* One step of the simulation timer (it runs while alpha is not below
\* alphaMin): a node with fx/fy set is moved there; the displacement of
\* the other nodes by the forces is not modelled.
tick ==
    /\ Quiet
    /\ RLess(R(0), alpha)
    /\ heap' = [a \in 1..Len(heap) |->
                  IF a \in Range(simNodes) /\ heap[a].fx # NoNum
                  THEN [heap[a] EXCEPT !.x = heap[a].fx, !.y = heap[a].fy]
                  ELSE heap[a]]
    /\ alpha' = AlphaStep(alpha, alphaTarget)
    /\ UNCHANGED <<nodes, links, nextId, selVars, dragVars, panVars,
                   zoomTransform, simNodes, simLinks, alphaTarget, charge,
                   ptrVars, loadState, sizeVars, contextDisplay, uncaught>>
    /\ UNCHANGED saveVars

\* ------------------------------------------------------- specifications
Init ==
    /\ heap = <<>>
    /\ nodes = <<>>
    /\ links = <<>>
    /\ nextId = 1
    /\ selectedNode = NULL
    /\ connectionSourceNode = NULL
    /\ editorOpen = FALSE
    /\ isDragging = FALSE
    /\ draggedNode = NULL
    /\ isPanning = FALSE
    /\ panStartX = R(0)
    /\ panStartY = R(0)
    /\ zoomTransform = NoTransform
    /\ simNodes = <<>>
    /\ simLinks = <<>>
    /\ alpha = R(1)
    /\ alphaTarget = R(0)
    /\ charge = R(chargeStrength)
    /\ press = NoTarget
    /\ clickOn = NoTarget
    /\ loadState = "pending"
    /\ uncaught = "none"
    /\ editorText = emptyNote
    /\ timeout = NoTimer
    /\ sinceChange = debounceWait
    /\ request = <<>>
    /\ width = InitialSize[1]
    /\ height = InitialSize[2]
    /\ center = [forceCenter(Rat(width, 2), Rat(height, 2))
                   EXCEPT !.strength = gravityStrength]
    /\ contextDisplay = <<>>

\* ---------------------------------------------------------------- reload
\* The body GET /api/graph answers with after `body` was posted: the
\* server keeps the last body it received. JSON.stringify and
\* response.json() keep the numbers, strings, nulls, booleans and arrays a
\* body is made of.
responseJson(body) ==
    [hasNodes |-> TRUE, hasLinks |-> TRUE, nodes |-> body.nodes,
     links |-> body.links]

\* The graph store of a page that has just been initialised.
InitStore ==
    [heap |-> <<>>, nodes |-> <<>>, links |-> <<>>, nextId |-> 1,
     simNodes |-> <<>>, simLinks |-> <<>>, alpha |-> R(1),
     charge |-> R(chargeStrength)]

\* The page is reloaded after the last handler has posted the graph: init()
\* runs again and loadGraph() receives the posted body before any other
\* event.
reload(rx, ry) ==
    /\ Quiet /\ press = NoTarget
    /\ request # <<>>
    /\ Commit(loadGraphThen(InitStore, responseJson(request[Len(request)]),
                            rx, ry))
    /\ selectedNode' = NULL
    /\ connectionSourceNode' = NULL
    /\ editorOpen' = FALSE
    /\ isDragging' = FALSE
    /\ draggedNode' = NULL
    /\ isPanning' = FALSE
    /\ panStartX' = R(0)
    /\ panStartY' = R(0)
    /\ zoomTransform' = NoTransform
    /\ alphaTarget' = R(0)
    /\ loadState' = "done"
    /\ uncaught' = "none"
    /\ editorText' = emptyNote
    /\ timeout' = NoTimer
    /\ sinceChange' = debounceWait
    /\ request' = <<>>
    /\ center' = [forceCenter(Rat(width, 2), Rat(height, 2))
                    EXCEPT !.strength = gravityStrength]
    /\ contextDisplay' = <<>>
    /\ UNCHANGED <<ptrVars, width, height>>

PressTargets == {SvgTarget} \cup {LinkTarget(l) : l \in DomLinks}

\* The graph store and the interaction controller under editing gestures
\* (press, release, click, context menu, keyboard) and the load; the
\* pointer stays at one place, every press is released over the document.
Next ==
    \/ \E t \in PressTargets, p \in ClickPts : handleSvgMouseDown(t, p[1], p[2])
    \/ \E d \in DomNodes : handleNodeMouseDown(d)
    \/ \E b \in Buttons : PressButton(b)
    \/ \E click \in BOOLEAN : handleGlobalMouseUp(click)
    \/ \E ctrl \in BOOLEAN, p \in ClickPts : handleBackgroundClick(ctrl, p[1], p[2])
    \/ \E d \in DomNodes, ctrl \in BOOLEAN :
          handleNodeClick(d, ctrl) /\ Len(links') <= MaxEditLinks
    \/ \E d \in DomLinks, ctrl \in BOOLEAN :
          handleLinkClick(d, ctrl) /\ Len(links') <= MaxEditLinks
    \/ \E b \in Buttons : handleButtonClick(b)
    \/ \E d \in DomNodes, angle \in Angles :
          handleNodeRightClick(d, angle) /\ Len(links') <= MaxEditLinks
    \/ \E ctrl \in BOOLEAN, p \in ClickPts : handleBackgroundRightClick(ctrl, p[1], p[2])
    \/ \E key \in Keys, ctrl \in BOOLEAN : handleKeydown(key, ctrl)
    \/ \E data \in Payloads, rx \in RandomCoords, ry \in RandomCoords :
          loadGraph(data, rx, ry)
    \/ loadGraphCatch

Spec == Init /\ [][Next]_vars

\* Nodes created, connected, dragged about and moved by the simulation,
\* and links split.
NextDrag ==
    \/ \E p \in ClickPts : handleBackgroundRightClick(TRUE, p[1], p[2])
    \/ \E d \in DomNodes, angle \in Angles : handleNodeRightClick(d, angle)
    \/ \E l \in DomLinks, p \in ClickPts : handleSvgMouseDown(LinkTarget(l), p[1], p[2])
    \/ \E d \in DomNodes : handleNodeMouseDown(d)
    \/ \E p \in ClickPts : handleGlobalMouseMove(p[1], p[2])
    \/ \E click \in BOOLEAN : handleGlobalMouseUp(click)
    \/ \E d \in DomNodes : handleNodeClick(d, TRUE)
    \/ \E d \in DomLinks : handleLinkClick(d, TRUE)
    \/ tick

SpecDrag == Init /\ [][NextDrag]_vars

\* The viewport under wheel events, the zoom behaviour's gestures and
\* background panning, on an empty graph.
NextView ==
    \/ \E t \in GestureTransforms : zoomGesture(t)
    \/ \E deltaPositive \in BOOLEAN, p \in ScreenPts :
          handleWheel(deltaPositive, p[1], p[2])
    \/ \E p \in ScreenPts : handleSvgMouseDown(SvgTarget, p[1], p[2])
    \/ \E p \in ScreenPts : handleGlobalMouseMove(p[1], p[2])
    \/ handleGlobalMouseUp(FALSE)

SpecView == Init /\ [][NextView]_vars


\* Node drags whose release can miss the document: presses, moves,
\* releases inside and outside the window, and simulation ticks.
NextPin ==
    \/ \E p \in ClickPts : handleBackgroundRightClick(TRUE, p[1], p[2])
    \/ \E d \in DomNodes : handleNodeMouseDown(d)
    \/ \E p \in ScreenPts : handleGlobalMouseMove(p[1], p[2])
    \/ handleGlobalMouseUp(FALSE)
    \/ MouseUpOutside
    \/ tick

SpecPin == Init /\ [][NextPin]_vars

\* Notes edited and saved: nodes are created and selected, the user types,
\* time passes, the debounce timer runs, the editor's buttons and the
\* keyboard save, close and delete, and the initial load completes.
NextSave ==
    \/ \E p \in ClickPts : handleBackgroundRightClick(TRUE, p[1], p[2])
    \/ \E d \in DomNodes : handleNodeMouseDown(d)
    \/ \E b \in Buttons : PressButton(b)
    \/ \E click \in BOOLEAN : handleGlobalMouseUp(click)
    \/ \E d \in DomNodes : handleNodeClick(d, FALSE)
    \/ \E b \in Buttons : handleButtonClick(b)
    \/ \E key \in Keys, ctrl \in BOOLEAN : handleKeydown(key, ctrl)
    \/ \E text \in Texts : editorChange(text)
    \/ timePasses
    \/ later
    \/ \E data \in Payloads, rx \in RandomCoords, ry \in RandomCoords :
          loadGraph(data, rx, ry)

SpecSave == Init /\ [][NextSave]_vars

\* The initial load racing with the user: nodes are created, spawned and
\* connected before and after the body arrives or the fetch fails.
NextLoad ==
    \/ \E p \in ClickPts : handleBackgroundRightClick(TRUE, p[1], p[2])
    \/ \E d \in DomNodes, angle \in Angles : handleNodeRightClick(d, angle)
    \/ \E d \in DomNodes : handleNodeMouseDown(d)
    \/ handleGlobalMouseUp(TRUE)
    \/ \E d \in DomNodes : handleNodeClick(d, TRUE)
    \/ \E data \in LoadPayloads, rx \in RandomCoords, ry \in RandomCoords :
          loadGraph(data, rx, ry)
    \/ loadGraphCatch

SpecLoad == Init /\ [][NextLoad]_vars

\* The window resized while the viewport is zoomed, nodes are created,
\* spawned and dragged, and the simulation ticks.
NextResize ==
    \/ \E s \in WindowSizes : handleResize(s[1], s[2])
    \/ \E t \in GestureTransforms : zoomGesture(t)
    \/ \E p \in ClickPts : handleBackgroundRightClick(TRUE, p[1], p[2])
    \/ \E d \in DomNodes, angle \in Angles : handleNodeRightClick(d, angle)
    \/ \E d \in DomNodes : handleNodeMouseDown(d)
    \/ handleGlobalMouseUp(FALSE)
    \/ tick

SpecResize == Init /\ [][NextResize]_vars

\* The context panel: graphs with notes are loaded, nodes are created and
\* spawned, nodes are selected and their notes edited.
NextContext ==
    \/ \E data \in NotePayloads, rx \in RandomCoords, ry \in RandomCoords :
          loadGraph(data, rx, ry)
    \/ \E p \in ClickPts : handleBackgroundRightClick(TRUE, p[1], p[2])
    \/ \E d \in DomNodes, angle \in Angles : handleNodeRightClick(d, angle)
    \/ \E d \in DomNodes : handleNodeMouseDown(d)
    \/ handleGlobalMouseUp(TRUE)
    \/ \E d \in DomNodes : handleNodeClick(d, FALSE)
    \/ \E text \in Texts : editorChange(text)
    \/ timePasses
    \/ later

SpecContext == Init /\ [][NextContext]_vars

\* Save and reload: nodes are created anywhere on the screen, spawned and
\* connected, the graph is saved from the keyboard, the page is reloaded.
NextRound ==
    \/ \E p \in ScreenPts : handleBackgroundRightClick(TRUE, p[1], p[2])
    \/ \E d \in DomNodes, angle \in Angles : handleNodeRightClick(d, angle)
    \/ \E d \in DomNodes : handleNodeMouseDown(d)
    \/ handleGlobalMouseUp(TRUE)
    \/ \E d \in DomNodes : handleNodeClick(d, TRUE)
    \/ handleKeydown("s", TRUE)
    \/ \E rx \in RandomCoords, ry \in RandomCoords : reload(rx, ry)

SpecRound == Init /\ [][NextRound]_vars

\* SpecSave with the browser's scheduling: time does not stop however
\* many events are handled, a timer that is due runs its callback between
\* two events, and a click that follows a release is dispatched.
SpecSaveFair ==
    /\ SpecSave
    /\ SF_vars(timePasses)
    /\ SF_vars(later)
    /\ WF_vars(\E d \in DomNodes : handleNodeClick(d, FALSE))
    /\ WF_vars(\E b \in Buttons : handleButtonClick(b))

\* ================================================================ claims
NodeObjs == Range(nodes)
Last(q) == q[Len(q)]
Front(q) == SubSeq(q, 1, Len(q) - 1)
\* q without its i-th element
Without(q, i) == SubSeq(q, 1, i - 1) \o SubSeq(q, i + 1, Len(q))

\* C1: in every reachable state the parent/child bookkeeping is mutually
\* consistent: every id in n.children is the id of a node of the node set
\* whose parentId is n.id, and every non-null parentId p of a node c is the
\* id of a node of the node set whose children contain c.id.
C1_ParentChildConsistent ==
    \A a \in NodeObjs :
        /\ \A c \in Range(heap[a].children) :
              \E b \in NodeObjs :
                  heap[b].id = c /\ heap[b].parentId = heap[a].id
        /\ heap[a].parentId # NULL =>
              \E b \in NodeObjs :
                  /\ heap[b].id = heap[a].parentId
                  /\ heap[a].id \in Range(heap[b].children)

\* C2: a right-click on node A while no drag is in progress adds exactly
\* one node B, of kind child, and exactly one link A->B that is no breaker
\* segment; afterwards B.parentId = A.id and A.children ends with B.id.
C2_RightClickSpawnsChild ==
    [][\A d \in DomNodes, angle \in Angles :
          (handleNodeRightClick(d, angle) /\ ~isDragging) =>
              /\ Len(nodes') = Len(nodes) + 1
              /\ Front(nodes') = nodes
              /\ heap'[Last(nodes')].type = "child"
              /\ Len(links') = Len(links) + 1
              /\ Front(links') = links
              /\ Last(links').source = d
              /\ Last(links').target = Last(nodes')
              /\ ~Last(links').isBreakerLink
              /\ heap'[Last(nodes')].parentId = heap[d].id
              /\ heap'[d].children # <<>>
              /\ Last(heap'[d].children) = heap'[Last(nodes')].id]_vars

\* A step that asks for the deletion of the selected node.
DeleteRequested ==
    /\ selectedNode # NULL
    /\ \/ \E ctrl \in BOOLEAN : handleKeydown("Delete", ctrl)
       \/ handleButtonClick("delete-node")

\* C3: pressing Delete (or activating the delete button) while node n is
\* selected leads to a state where n is not in the node set, no link has n
\* as source or target, no node has parentId = n.id, no node lists n.id in
\* its children, and the selection is cleared and the editor closed.
C3_DeleteRemovesNode ==
    [][DeleteRequested =>
          /\ selectedNode \notin Range(nodes')
          /\ \A i \in 1..Len(links') :
                links'[i].source # selectedNode /\ links'[i].target # selectedNode
          /\ \A a \in Range(nodes') :
                /\ heap'[a].parentId # heap[selectedNode].id
                /\ heap[selectedNode].id \notin Range(heap'[a].children)
          /\ selectedNode' = NULL
          /\ editorOpen' = FALSE]_vars

\* C4: a modifier-click on a link removes exactly that one link and adds
\* exactly two links and one node: the link count grows by 1, the node
\* count by 1, and every other link is still there.
C4_SplitReplacesOneLink ==
    [][\A d \in DomLinks :
          handleLinkClick(d, TRUE) =>
              /\ Len(links') = Len(links) + 1
              /\ Len(nodes') = Len(nodes) + 1
              /\ \E i \in 1..Len(links) :
                    /\ links[i] = d
                    /\ SubSeq(links', 1, Len(links) - 1) = Without(links, i)]_vars

\* C5: after a split of link S->T the new node has kind breaker, an id no
\* node of the node set carried, and the midpoint of the positions S and T
\* have when the handler runs; the two new links are S->breaker and
\* breaker->T, both breaker segments, every other link was there before,
\* and no link with the id of the split link remains.
C5_SplitMakesBreaker ==
    [][\A d \in DomLinks :
          handleLinkClick(d, TRUE) =>
              LET b == Last(nodes')
                  n == Len(links')
              IN  /\ Len(nodes') = Len(nodes) + 1
                  /\ Front(nodes') = nodes
                  /\ heap'[b].type = "breaker"
                  /\ \A a \in NodeObjs : heap[a].id # heap'[b].id
                  /\ RMul(R(2), heap'[b].x) = RAdd(heap[d.source].x, heap[d.target].x)
                  /\ RMul(R(2), heap'[b].y) = RAdd(heap[d.source].y, heap[d.target].y)
                  /\ n >= 2
                  /\ links'[n - 1].source = d.source /\ links'[n - 1].target = b
                  /\ links'[n].source = b /\ links'[n].target = d.target
                  /\ links'[n - 1].isBreakerLink /\ links'[n].isBreakerLink
                  /\ \A i \in 1..(n - 2) : links'[i] \in Range(links)
                  /\ \A i \in 1..n : links'[i].id # d.id]_vars

\* C5 witness: a breaker node stands between two breaker segments.
C5_Witness ==
    \E b \in NodeObjs, i \in 1..Len(links), j \in 1..Len(links) :
        /\ heap[b].type = "breaker"
        /\ links[i].target = b /\ links[i].isBreakerLink
        /\ links[j].source = b /\ links[j].isBreakerLink
        /\ links[i].source # links[j].target
        /\ heap[links[i].source].y # heap[links[j].target].y

\* Two references name the same node when the ids agree.
SameNode(a, b) == heap[a].id = heap[b].id

\* C6: a modifier-click on node A with no pending source makes A the
\* pending source and leaves the links alone; with source A pending, a
\* modifier-click on another node B appends exactly one link A->B and
\* clears the pending source, and a modifier-click on A itself adds no link
\* and clears the pending source; a link added by a modifier-click never
\* has the same node as source and target.
C6_ConnectionProtocol ==
    [][\A d \in DomNodes :
          handleNodeClick(d, TRUE) =>
              /\ connectionSourceNode = NULL =>
                    connectionSourceNode' = d /\ links' = links
              /\ connectionSourceNode # NULL /\ SameNode(connectionSourceNode, d) =>
                    connectionSourceNode' = NULL /\ links' = links
              /\ connectionSourceNode # NULL /\ ~SameNode(connectionSourceNode, d) =>
                    /\ connectionSourceNode' = NULL
                    /\ Len(links') = Len(links) + 1
                    /\ Front(links') = links
                    /\ Last(links').source = connectionSourceNode
                    /\ Last(links').target = d
              /\ \A i \in (Len(links) + 1)..Len(links') :
                    /\ links'[i].source # links'[i].target
                    /\ links'[i].id[1] # links'[i].id[2]]_vars

\* C6 witness: a link drawn by the connection gesture (it ends at a root
\* node, which neither a spawn nor the loaded body produces) and no source
\* pending any more.
C6_Witness ==
    /\ connectionSourceNode = NULL
    /\ \E i \in 1..Len(links) :
          /\ ~links[i].isBreakerLink
          /\ heap[links[i].target].type = "root"
          /\ links[i].source # links[i].target

\* C7: at most one of background panning, node drag and pending connection
\* source holds in every reachable state.
C7_ModesExclusive ==
    /\ ~(isPanning /\ isDragging)
    /\ ~(isPanning /\ connectionSourceNode # NULL)
    /\ ~(isDragging /\ connectionSourceNode # NULL)

\* C8: the viewport scale stays within [zoomMin, zoomMax] in every
\* reachable state.
C8_ScaleWithinExtent ==
    RLeq(zoomMin, CurrentTransform.k) /\ RLeq(CurrentTransform.k, zoomMax)

\* C9: wheel zoom is pointer-anchored: the world point under the pointer
\* before a wheel event is mapped to the pointer's screen position by the
\* transform the wheel handler produces.
C9_PointerAnchored ==
    [][\A deltaPositive \in BOOLEAN, p \in ScreenPts :
          handleWheel(deltaPositive, p[1], p[2]) =>
              /\ applyX(zoomTransform', getSVGCoordinatesX(p[1])) = p[1]
              /\ applyY(zoomTransform', getSVGCoordinatesY(p[2])) = p[2]]_vars

\* C10: a wheel event that cannot change the scale (zoom-in at zoomMax,
\* zoom-out at zoomMin) leaves the transform as it was.
C10_ZoomAtLimitIdempotent ==
    [][\A deltaPositive \in BOOLEAN, p \in ScreenPts :
          (/\ handleWheel(deltaPositive, p[1], p[2])
           /\ \/ (~deltaPositive /\ CurrentTransform.k = zoomMax)
              \/ (deltaPositive /\ CurrentTransform.k = zoomMin)) =>
              CurrentTransform' = CurrentTransform]_vars

\* C11: while background panning is active, a pointer move by the screen
\* delta (dx, dy) changes the viewport translation by exactly (dx, dy) and
\* leaves the scale as it was, whatever the current scale.
C11_PanAddsScreenDelta ==
    [][\A p \in ScreenPts :
          (isPanning /\ handleGlobalMouseMove(p[1], p[2])) =>
              /\ CurrentTransform'.x =
                    RAdd(CurrentTransform.x, RSub(p[1], panStartX))
              /\ CurrentTransform'.y =
                    RAdd(CurrentTransform.y, RSub(p[2], panStartY))
              /\ CurrentTransform'.k = CurrentTransform.k]_vars

\* A node of the node set carries a pinned override.
Pinned(a) == heap[a].fx # NoNum \/ heap[a].fy # NoNum

\* C12: a node is pinned (fx/fy set) only while a drag is active and it is
\* the dragged node; whenever no drag is active, no node is pinned and the
\* simulation's alphaTarget is 0.
C12_PinsMatched ==
    /\ \A a \in NodeObjs : Pinned(a) => isDragging /\ draggedNode = a
    /\ ~isDragging => alphaTarget = R(0)

\* The note the body `body` carries for the node object a of the node set.
CarriesNote(body, a, text) ==
    /\ \E i \in 1..Len(nodes) : nodes[i] = a
    /\ \A i \in 1..Len(nodes) : nodes[i] = a =>
          /\ i <= Len(body.nodes)
          /\ body.nodes[i].id = heap[a].id
          /\ body.nodes[i].note = text

\* C13: while a node stays selected, editor changes that
\* follow each other by less than 500 ms post nothing themselves and keep
\* one timer, due 500 ms after the last change; when it runs, exactly one
\* body is posted, 500 ms after the last change, carrying the editor's
\* text in the selected node's note, and no timer is left.
C13_DebounceCoalesces ==
    [][/\ timeout # NoTimer => timeout + sinceChange = debounceWait
       /\ \A text \in Texts :
             editorChange(text) => request' = <<>> /\ timeout' = debounceWait
       /\ timePasses => request' = request
       /\ (later /\ selectedNode # NULL) =>
             /\ sinceChange = debounceWait
             /\ Len(request') = 1
             /\ CarriesNote(request'[1], selectedNode, editorText)
             /\ timeout' = NoTimer]_vars

\* A save the user asks for: the save button or Ctrl+S.
ManualSave == handleButtonClick("save-note") \/ handleKeydown("s", TRUE)

\* A save that does not wait for the timer: a manual save, closing the
\* editor (button or Escape), or a delete.
ImmediateSave ==
    \/ ManualSave
    \/ handleButtonClick("close-editor")
    \/ \E ctrl \in BOOLEAN : handleKeydown("Escape", ctrl)
    \/ DeleteRequested

\* The timer of the debounced listener is pending and will post when it
\* runs.
DebouncedWritePending == timeout # NoTimer /\ selectedNode # NULL

\* C14: an immediate save issued while a debounced write is pending cancels
\* it: after the save no debounced write is pending.
C14_ImmediateSaveCancels ==
    [][(ImmediateSave /\ DebouncedWritePending) => ~DebouncedWritePending']_vars

\* C15: a manual save issued inside the debounce window posts a body in
\* which the selected node's note is the editor's latest text.
C15_ManualSaveLatestText ==
    [][(ManualSave /\ DebouncedWritePending /\ selectedNode \in NodeObjs) =>
          /\ Len(request') = 1
          /\ CarriesNote(request'[1], selectedNode, editorText)]_vars

\* The body has a non-empty node list.
HasNodes(data) == data.hasNodes /\ data.nodes # <<>>

\* The links of the body whose two ids are ids of nodes of the body.
Resolved(data) ==
    SelectSeq(data.links, LAMBDA l :
        /\ \E i \in 1..Len(data.nodes) : data.nodes[i].id = l.source
        /\ \E i \in 1..Len(data.nodes) : data.nodes[i].id = l.target)

\* The graph after the load is the body's: its nodes, and its links with
\* two resolving ids, in the body's order, between nodes of the node set.
LoadedAs(data) ==
    /\ Len(nodes') = Len(data.nodes)
    /\ \A i \in 1..Len(nodes') :
          /\ heap'[nodes'[i]].id = data.nodes[i].id
          /\ heap'[nodes'[i]].type = data.nodes[i].type
          /\ heap'[nodes'[i]].note = data.nodes[i].note
    /\ Len(links') = Len(Resolved(data))
    /\ \A i \in 1..Len(links') :
          /\ links'[i].source \in Range(nodes')
          /\ links'[i].target \in Range(nodes')
          /\ heap'[links'[i].source].id = Resolved(data)[i].source
          /\ heap'[links'[i].target].id = Resolved(data)[i].target
          /\ links'[i].isBreakerLink = Resolved(data)[i].isBreakerLink

\* C16 as stated: after every load that completes successfully the node
\* set holds exactly the body's nodes and the link set exactly the body's
\* links with two resolving ids, in order, between loaded nodes.
C16_LoadIsPayload ==
    [][\A data \in LoadPayloads, rx \in RandomCoords, ry \in RandomCoords :
          (loadGraph(data, rx, ry) /\ (HasNodes(data) => data.hasLinks)) =>
              LoadedAs(data)]_vars

\* C16, for a body with a non-empty node list: after the load the node set
\* holds exactly the body's nodes, every link joins two loaded nodes, the
\* body's links with an id that resolves to no loaded node are absent and
\* the others are present in the body's order.
C16_LoadReconciles ==
    [][\A data \in LoadPayloads, rx \in RandomCoords, ry \in RandomCoords :
          (loadGraph(data, rx, ry) /\ HasNodes(data) /\ data.hasLinks) =>
              LoadedAs(data)]_vars

\* C16 witness: the body with the dangling link is loaded: two nodes, the
\* two resolving links in order.
C16_Witness ==
    /\ loadState = "done"
    /\ Len(nodes) = 2 /\ Len(links) = 2
    /\ heap[nodes[1]].id = 2 /\ heap[nodes[2]].id = 1
    /\ links[1].id = <<2, 1>> /\ links[2].id = <<1, 2>>
    /\ links[1].source = nodes[1] /\ links[1].target = nodes[2]

\* C17: the next-id counter never decreases, no two nodes of the node set
\* share an id, and no id is carried by two different node objects of the
\* session, created or loaded.
C17_IdsNeverReused ==
    [][/\ nextId' >= nextId
       /\ \A i, j \in 1..Len(nodes') :
             i # j => heap'[nodes'[i]].id # heap'[nodes'[j]].id
       /\ \A a, b \in 1..Len(heap') : a # b => heap'[a].id # heap'[b].id]_vars

\* C18: after a successful load of a body with a non-empty node list the
\* next-id counter is the largest loaded id plus 1; after a load of a body
\* whose node list is empty or missing, the counter, the node set and the
\* link set are what they were.
C18_NextIdAfterLoad ==
    [][\A data \in LoadPayloads, rx \in RandomCoords, ry \in RandomCoords :
          loadGraph(data, rx, ry) =>
              /\ (HasNodes(data) /\ data.hasLinks) =>
                    /\ \A i \in 1..Len(data.nodes) : data.nodes[i].id < nextId'
                    /\ \E i \in 1..Len(data.nodes) : data.nodes[i].id + 1 = nextId'
              /\ ~HasNodes(data) =>
                    nextId' = nextId /\ nodes' = nodes /\ links' = links]_vars

\* C18 witness: the body stored out of id order is loaded and the counter
\* stands at 3.
C18_Witness ==
    /\ loadState = "done"
    /\ nextId = 3
    /\ Len(nodes) = 2
    /\ heap[nodes[1]].id = 2 /\ heap[nodes[2]].id = 1

\* C19: every link's source and target are distinct nodes, both members of
\* the node set.
C19_LinkEndpointsInGraph ==
    \A i \in 1..Len(links) :
        /\ links[i].source # links[i].target
        /\ links[i].source \in NodeObjs
        /\ links[i].target \in NodeObjs

\* C20: a load that fails (the fetch rejects, the body does not parse, or
\* the body has nodes and no link list) leaves node set, link set and
\* next-id counter as they were, and no error leaves the load.
C20_FailedLoadKeepsGraph ==
    [][(\/ loadGraphCatch
        \/ \E data \in LoadPayloads, rx \in RandomCoords, ry \in RandomCoords :
              loadGraph(data, rx, ry) /\ HasNodes(data) /\ ~data.hasLinks) =>
          /\ nodes' = nodes /\ links' = links /\ nextId' = nextId
          /\ uncaught' = "none"]_vars

\* LinksAt(a): positions in state.links of the links that end at node a.
LinksAt(a) == {i \in 1..Len(links) : links[i].source = a \/ links[i].target = a}

\* C21: in every reachable state every node of kind breaker is an endpoint
\* of exactly two links, whatever splits, connections and right-click
\* spawns follow its creation.
C21_BreakerInterior ==
    \A a \in NodeObjs : heap[a].type = "breaker" => Cardinality(LinksAt(a)) = 2

\* The editor reported the text t while node n was selected, and the
\* debounced listener has not run since.
ChangePending(n, t) ==
    selectedNode = n /\ editorText = t /\ timeout # NoTimer

\* The text t has reached n.note, or n is no longer in the graph, or the
\* editor has reported a newer text for n.
ChangeSettled(n, t) ==
    \/ n \notin NodeObjs
    \/ heap[n].note = t
    \/ selectedNode = n /\ editorText # t

\* C22: a change of the editor's text made while node n is selected is
\* eventually written into n.note unless n is deleted, also when the editor
\* is closed or another node is selected before the 500 ms have passed.
C22_ChangeEventuallyWritten ==
    \A n \in 1..MaxObj, t \in Texts : ChangePending(n, t) ~> ChangeSettled(n, t)

\* C23: from a scale within [zoomMin, zoomMax], a wheel event in the
\* zoom-in direction (deltaY <= 0) never decreases the scale and one in the
\* zoom-out direction (deltaY > 0) never increases it.
C23_WheelDirection ==
    [][\A deltaPositive \in BOOLEAN, p \in ScreenPts :
          (/\ handleWheel(deltaPositive, p[1], p[2])
           /\ RLeq(zoomMin, CurrentTransform.k)
           /\ RLeq(CurrentTransform.k, zoomMax)) =>
              IF deltaPositive
              THEN RLeq(CurrentTransform'.k, CurrentTransform.k)
              ELSE RLeq(CurrentTransform.k, CurrentTransform'.k)]_vars

\* |r| of a rational
Magnitude(r) == <<Abs(r[1]), r[2]>>

\* C24: a handler that creates a link (connection, spawn, split) leaves the
\* magnitude of the repulsion strength at least what it was before, and at
\* most twice the base magnitude.
C24_RepulsionNeverWeaker ==
    [][links' # links =>
          /\ RLeq(Magnitude(charge), Magnitude(charge'))
          /\ RLeq(Magnitude(charge'), R(2 * Abs(chargeStrength)))]_vars

\* q extends p: p is a prefix of q
Extends(q, p) == Len(p) <= Len(q) /\ SubSeq(q, 1, Len(p)) = p

\* C25: a right-click on a node leaves the interaction mode as it was (the
\* pending connection source, the selected node, the panning and dragging
\* flags); the node list and the link list only grow.
C25_RightClickKeepsMode ==
    [][\A d \in DomNodes, angle \in Angles :
          handleNodeRightClick(d, angle) =>
              /\ connectionSourceNode' = connectionSourceNode
              /\ selectedNode' = selectedNode
              /\ isPanning' = isPanning
              /\ isDragging' = isDragging
              /\ Extends(nodes', nodes)
              /\ Extends(links', links)]_vars

\* C26: a window resize changes only the target of the centering force (to
\* half the new width and height) and the simulation alpha (to 0.3): the
\* viewport transform, the graph, the interaction state and the other force
\* parameters, the centering strength of 0.05 among them, stay as they were.
C26_ResizeOnlyRecenters ==
    [][\A s \in WindowSizes :
          handleResize(s[1], s[2]) =>
              /\ center'.x = Rat(s[1], 2)
              /\ center'.y = Rat(s[2], 2)
              /\ alpha' = Rat(3, 10)
              /\ center'.strength = center.strength
              /\ center'.strength = gravityStrength
              /\ UNCHANGED <<zoomTransform, graphVars, selVars, dragVars,
                             panVars, simNodes, simLinks, alphaTarget,
                             charge>>]_vars

\* C27: a handler that changes the node list or the link list hands the
\* new lists to the simulation and leaves alpha reset (1 after a full
\* restart, at least 0.5 after a link creation) before it returns, so that
\* no tick runs against lists that differ from the store's.
C27_MutationRestarts ==
    [][(nodes' # nodes \/ links' # links) =>
          /\ simNodes' = nodes'
          /\ simLinks' = links'
          /\ RLeq(Rat(1, 2), alpha')]_vars

\* The first MAX_CHARS characters of t.
HeadKept(t) == IF Len(t) > MAX_CHARS THEN SubSeq(t, 1, MAX_CHARS) ELSE t
\* The last MAX_CHARS characters of t after an ellipsis marker.
TailKept(t) ==
    IF Len(t) > MAX_CHARS
    THEN Ellipsis \o SubSeq(t, Len(t) - MAX_CHARS + 1, Len(t))
    ELSE t

\* The node of the graph with the given id that has a note other than
\* white space, if there is one.
Noted(id) ==
    {a \in NodeObjs : a = FindNode(heap, nodes, id) /\ trim(heap[a].note) # <<>>}

\* The entries the context of node d is to have: the parent's first, then
\* the children's in the order of d.children.
RECURSIVE ChildEntries(_)
ChildEntries(ids) ==
    IF ids = <<>> THEN <<>>
    ELSE (IF Noted(Head(ids)) = {} THEN <<>>
          ELSE LET c == CHOOSE a \in Noted(Head(ids)) : TRUE
               IN  <<[label |-> "child", id |-> heap[c].id,
                      text |-> HeadKept(trim(heap[c].note))]>>)
         \o ChildEntries(Tail(ids))

ParentEntry(d) ==
    IF heap[d].parentId = NULL \/ Noted(heap[d].parentId) = {} THEN <<>>
    ELSE LET q == CHOOSE a \in Noted(heap[d].parentId) : TRUE
         IN  <<[label |-> "parent", id |-> heap[q].id,
                text |-> TailKept(trim(heap[q].note))]>>

\* C28: the context shown for a selected node has the parent's entry first
\* (trimmed note, its last 400 characters after an ellipsis when longer),
\* then one entry per child in children order (trimmed note, its first 400
\* characters when longer); nodes with empty or white-space notes and ids
\* that resolve to no node contribute nothing.
C28_ContextEntries ==
    [][\A d \in DomNodes :
          (handleNodeClick(d, FALSE) /\ ~isDragging) =>
              contextDisplay' = ParentEntry(d) \o ChildEntries(heap[d].children)]_vars

\* C29: in every reachable state the selected node and the pending
\* connection source, when there is one, are members of the current node
\* list, also after the load has completed.
C29_SelectionInGraph ==
    /\ selectedNode # NULL => selectedNode \in NodeObjs
    /\ connectionSourceNode # NULL => connectionSourceNode \in NodeObjs

\* What a save/load round trip is to keep of the node at position i of the
\* node list ns over the objects h.
NodeKept(h, ns, i) ==
    [id |-> h[ns[i]].id, type |-> h[ns[i]].type, note |-> h[ns[i]].note,
     parentId |-> h[ns[i]].parentId, children |-> h[ns[i]].children,
     x |-> h[ns[i]].x, y |-> h[ns[i]].y]

\* <<source id, target id, breaker flag>> of the link at position i.
LinkKept(h, ls, i) ==
    <<h[ls[i].source].id, h[ls[i].target].id, ls[i].isBreakerLink>>

\* C30: loading the body saveGraph produced for a graph with at least one
\* node restores the ids, kinds, notes, parentId and children values and
\* the positions of the nodes (a coordinate equal to 0 included), and the
\* sequence of (source id, target id, breaker flag) of the links.
C30_SaveLoadRoundTrip ==
    [][\A rx \in RandomCoords, ry \in RandomCoords :
          (reload(rx, ry) /\ nodes # <<>>) =>
              /\ Len(nodes') = Len(nodes)
              /\ \A i \in 1..Len(nodes) :
                    NodeKept(heap', nodes', i) = NodeKept(heap, nodes, i)
              /\ Len(links') = Len(links)
              /\ \A i \in 1..Len(links) :
                    LinkKept(heap', links', i) = LinkKept(heap, links, i)]_vars

====
